---- MODULE Spec2Model ----
(***************************************************************************)
(* Model of crates/client/src/error/client_error.rs: the client crate's    *)
(* ErrorKind / Error types, their Clone and Display implementations, the   *)
(* inbound From conversions and the outbound conversion to io::Error.      *)
(*                                                                         *)
(* Option<T> is modelled as a sequence of length 0 (None) or 1 (Some), so  *)
(* that every record field has one type.  Text is modelled by strings.     *)
(***************************************************************************)
EXTENDS Naturals, Sequences, FiniteSets, TLC

VARIABLES
    traceEnabled,  \* whether trace!() captures a backtrace in this process
    err,           \* Option<Error>: the Error value currently held
    ioe,           \* Option<io::Error>: the io::Error produced by the outbound conversion
    src,           \* the input of the conversion that built the held value
    orig,          \* Option<Error>: the held Error as it was constructed
    prev,          \* Option<Error>: the receiver of the last clone / fmt / into
    shown,         \* Option<String>: the text written by the last Display::fmt
    last,          \* name of the last operation
    clones         \* number of clones taken since construction

vars == <<traceEnabled, err, ioe, src, orig, prev, shown, last, clones>>

\* Longest chain of clones taken of one constructed Error.
MaxClones == 2

None == <<>>
Some(x) == <<x>>

-----------------------------------------------------------------------------
(* Foreign error values                                                     *)

\* Message contents used for &'static str, String and io::Error payloads.
Strs == {"", "timeout", "mock timeout"}

\* io::ErrorKind: the classification code of an io::Error.
IoErrorKinds == {"TimedOut", "Other", "NotFound"}

\* io::Error: a classification code and an optional custom payload, kept as
\* the payload's Display text.
IoErrors == [kind : IoErrorKinds, payload : {None, Some("mock timeout")}]

\* io::Error::from(kind): an error of that kind with no payload.
io_Error_from(kind) == [kind |-> kind, payload |-> None]

\* io::Error::new(kind, payload)
io_Error_new(kind, text) == [kind |-> kind, payload |-> Some(text)]

\* ProtoError: its kind, and the io::Error a ProtoErrorKind::Io wraps.
ProtoErrors ==
    {[kind |-> k, io |-> None] : k \in {"Timeout", "Message"}}
        \cup {[kind |-> "Io", io |-> Some(e)] : e \in IoErrors}

\* DnsSecError: its kind, and the ProtoError a DnsSecErrorKind::Proto wraps.
DnsSecErrors ==
    {[kind |-> k, proto |-> None] : k \in {"Timeout", "Message"}}
        \cup {[kind |-> "Proto", proto |-> Some(p)] : p \in ProtoErrors}

\* mpsc::SendError: the channel was full or the receiver is gone.
SendErrors == {[kind |-> "Full"], [kind |-> "Disconnected"]}

\* Display of mpsc::SendError.
SendError_fmt(e) ==
    IF e.kind = "Full" THEN "send failed because channel is full"
    ELSE "send failed because receiver is gone"

\* Clone of the foreign error types wrapped by DnsSec, Proto and SendError.
DnsSecError_clone(e) == [kind |-> e.kind, proto |-> e.proto]
ProtoError_clone(e) == [kind |-> e.kind, io |-> e.io]
SendError_clone(e) == [kind |-> e.kind]

-----------------------------------------------------------------------------
(* ErrorKind                                                                *)

NoPayload == [msg |-> None, dnssec |-> None, io |-> None, proto |-> None, send |-> None]

Message(m) == [NoPayload EXCEPT !.msg = Some(m)] @@ [tag |-> "Message"]
Msg(m) == [NoPayload EXCEPT !.msg = Some(m)] @@ [tag |-> "Msg"]
DnsSec(e) == [NoPayload EXCEPT !.dnssec = Some(e)] @@ [tag |-> "DnsSec"]
Io(e) == [NoPayload EXCEPT !.io = Some(e)] @@ [tag |-> "Io"]
Proto(e) == [NoPayload EXCEPT !.proto = Some(e)] @@ [tag |-> "Proto"]
SendError(e) == [NoPayload EXCEPT !.send = Some(e)] @@ [tag |-> "SendError"]
Timeout == NoPayload @@ [tag |-> "Timeout"]

\* Every value of the enum over the modelled payloads.
ErrorKinds ==
    {Message(m) : m \in Strs} \cup {Msg(m) : m \in Strs}
        \cup {DnsSec(e) : e \in DnsSecErrors} \cup {Io(e) : e \in IoErrors}
        \cup {Proto(e) : e \in ProtoErrors} \cup {SendError(e) : e \in SendErrors}
        \cup {Timeout}

\* ErrorKind_fmt with the template of the Timeout variant left empty.
ErrorKind_fmt_blank(k) ==
    CASE k.tag \in {"Message", "Msg"} -> k.msg[1]
      [] k.tag = "DnsSec" -> "dnssec error"
      [] k.tag = "Io" -> "io error"
      [] k.tag = "Proto" -> "proto error"
      [] k.tag = "SendError" -> "error sending to mpsc: " \o SendError_fmt(k.send[1])
      [] k.tag = "Timeout" -> ""

\* thiserror's #[error(...)] templates: Display for ErrorKind.
ErrorKind_fmt(k) ==
    CASE k.tag = "Message" -> k.msg[1]
      [] k.tag = "Msg" -> k.msg[1]
      [] k.tag = "DnsSec" -> "dnssec error"
      [] k.tag = "Io" -> "io error"
      [] k.tag = "Proto" -> "proto error"
      [] k.tag = "SendError" -> "error sending to mpsc: " \o SendError_fmt(k.send[1])
      [] k.tag = "Timeout" -> "request timed out"

\* ErrorKind_clone keeping the wrapped io::Error whole.
ErrorKind_clone_deep(k) ==
    CASE k.tag = "Message" -> Message(k.msg[1])
      [] k.tag = "Msg" -> Msg(k.msg[1])
      [] k.tag = "DnsSec" -> DnsSec(DnsSecError_clone(k.dnssec[1]))
      [] k.tag = "Io" -> Io(k.io[1])
      [] k.tag = "Proto" -> Proto(ProtoError_clone(k.proto[1]))
      [] k.tag = "SendError" -> SendError(SendError_clone(k.send[1]))
      [] k.tag = "Timeout" -> Timeout

\* impl Clone for ErrorKind
ErrorKind_clone(k) ==
    CASE k.tag = "Message" -> Message(k.msg[1])
      [] k.tag = "Msg" -> Msg(k.msg[1])
      [] k.tag = "DnsSec" -> DnsSec(DnsSecError_clone(k.dnssec[1]))
      [] k.tag = "Io" -> Io(io_Error_from(k.io[1].kind))
      [] k.tag = "Proto" -> Proto(ProtoError_clone(k.proto[1]))
      [] k.tag = "SendError" -> SendError(SendError_clone(k.send[1]))
      [] k.tag = "Timeout" -> Timeout

-----------------------------------------------------------------------------
(* Error                                                                    *)

\* trace!(): Some(backtrace) when capture is enabled, None otherwise.
trace(enabled) == IF enabled THEN Some("stack backtrace: 0: client_error::from") ELSE None

\* fmt::Debug of the captured backtrace.
Backtrace_fmt(bt) == bt

\* Error_clone that does not carry the backtrace over.
Error_clone_nobt(e) == [kind |-> ErrorKind_clone(e.kind), backtrack |-> None]

\* #[derive(Clone)] on struct Error: clones both fields.
Error_clone(e) == [kind |-> ErrorKind_clone(e.kind), backtrack |-> e.backtrack]

\* impl fmt::Display for Error
Error_fmt(e) ==
    IF e.backtrack # None
    THEN ErrorKind_fmt(e.kind) \o Backtrace_fmt(e.backtrack[1])
    ELSE ErrorKind_fmt(e.kind)

\* impl From<ErrorKind> for Error
From_ErrorKind(kind, enabled) == [kind |-> kind, backtrack |-> trace(enabled)]

\* impl From<&'static str> for Error
From_str(msg, enabled) == From_ErrorKind(Message(msg), enabled)

\* impl From<mpsc::SendError> for Error
From_SendError(e, enabled) == From_ErrorKind(SendError(e), enabled)

\* From_String that takes the word "timeout" for a timeout.
From_String_norm(msg, enabled) ==
    IF msg = "timeout" THEN From_ErrorKind(Timeout, enabled)
    ELSE From_ErrorKind(Msg(msg), enabled)

\* impl From<String> for Error
From_String(msg, enabled) == From_ErrorKind(Msg(msg), enabled)

\* From_DnsSecError without the timeout arm.
From_DnsSecError_nonorm(e, enabled) == From_ErrorKind(DnsSec(e), enabled)

\* impl From<DnsSecError> for Error
From_DnsSecError(e, enabled) ==
    IF e.kind = "Timeout" THEN From_ErrorKind(Timeout, enabled)
    ELSE From_ErrorKind(DnsSec(e), enabled)

\* From_io_Error that takes every classified failure for a timeout.
From_io_Error_broad(e, enabled) ==
    IF e.kind # "Other" THEN From_ErrorKind(Timeout, enabled)
    ELSE From_ErrorKind(Io(e), enabled)

\* impl From<io::Error> for Error
From_io_Error(e, enabled) ==
    IF e.kind = "TimedOut" THEN From_ErrorKind(Timeout, enabled)
    ELSE From_ErrorKind(Io(e), enabled)

\* From_ProtoError that also looks into the wrapped io::Error.
From_ProtoError_deep(e, enabled) ==
    IF e.kind = "Timeout" \/ (e.kind = "Io" /\ e.io[1].kind = "TimedOut")
    THEN From_ErrorKind(Timeout, enabled)
    ELSE From_ErrorKind(Proto(e), enabled)

\* impl From<ProtoError> for Error
From_ProtoError(e, enabled) ==
    IF e.kind = "Timeout" THEN From_ErrorKind(Timeout, enabled)
    ELSE From_ErrorKind(Proto(e), enabled)

\* io_Error_from_Error that passes a wrapped io::Error's own code through.
io_Error_from_Error_inner(e) ==
    CASE e.kind.tag = "Timeout" -> io_Error_new("TimedOut", Error_fmt(e))
      [] e.kind.tag = "Io" -> io_Error_new(e.kind.io[1].kind, Error_fmt(e))
      [] OTHER -> io_Error_new("Other", Error_fmt(e))

\* io_Error_from_Error without the timeout arm.
io_Error_from_Error_other(e) == io_Error_new("Other", Error_fmt(e))

\* impl From<Error> for io::Error
io_Error_from_Error(e) ==
    IF e.kind.tag = "Timeout" THEN io_Error_new("TimedOut", Error_fmt(e))
    ELSE io_Error_new("Other", Error_fmt(e))

-----------------------------------------------------------------------------
(* State machine: an Error is constructed at a failure, then cloned,       *)
(* displayed, converted to an io::Error and back, or dropped.               *)

\* The record of a conversion's input: the entry point and the input, kept
\* as the ErrorKind that wraps it.
Source(entry, kind) == [entry |-> entry, kind |-> Some(kind)]

Init ==
    /\ traceEnabled \in BOOLEAN
    /\ err = None
    /\ ioe = None
    /\ src = [entry |-> "none", kind |-> None]
    /\ orig = None
    /\ prev = None
    /\ shown = None
    /\ last = "init"
    /\ clones = 0

Idle == err = None /\ ioe = None

\* The held Error becomes e, built by entry point `entry` from `kind`.
Construct(entry, kind, e) ==
    /\ err' = Some(e)
    /\ ioe' = None
    /\ src' = Source(entry, kind)
    /\ orig' = Some(e)
    /\ prev' = None
    /\ shown' = None
    /\ last' = "from"
    /\ clones' = 0
    /\ UNCHANGED traceEnabled

FromStr ==
    /\ Idle
    /\ \E m \in Strs : Construct("str", Message(m), From_str(m, traceEnabled))

FromString ==
    /\ Idle
    /\ \E m \in Strs : Construct("String", Msg(m), From_String(m, traceEnabled))

FromSendError ==
    /\ Idle
    /\ \E e \in SendErrors : Construct("SendError", SendError(e), From_SendError(e, traceEnabled))

FromDnsSecError ==
    /\ Idle
    /\ \E e \in DnsSecErrors : Construct("DnsSecError", DnsSec(e), From_DnsSecError(e, traceEnabled))

FromIoError ==
    /\ Idle
    /\ \E e \in IoErrors : Construct("io::Error", Io(e), From_io_Error(e, traceEnabled))

FromProtoError ==
    /\ Idle
    /\ \E e \in ProtoErrors : Construct("ProtoError", Proto(e), From_ProtoError(e, traceEnabled))

\* The generic entry point; the ErrorKind may come from the derived
\* From<DnsSecError> / From<io::Error> / From<ProtoError> for ErrorKind.
FromErrorKind ==
    /\ Idle
    /\ \E k \in ErrorKinds : Construct("ErrorKind", k, From_ErrorKind(k, traceEnabled))

\* The io::Error produced by the outbound conversion is converted back.
FromIoErrorBack ==
    /\ ioe # None
    /\ Construct("io::Error back", Io(ioe[1]), From_io_Error(ioe[1], traceEnabled))

Clone ==
    /\ err # None
    /\ clones < MaxClones
    /\ prev' = err
    /\ err' = Some(Error_clone(err[1]))
    /\ clones' = clones + 1
    /\ last' = "clone"
    /\ UNCHANGED <<traceEnabled, ioe, src, orig, shown>>

Display ==
    /\ err # None
    /\ prev' = err
    /\ shown' = Some(Error_fmt(err[1]))
    /\ last' = "fmt"
    /\ UNCHANGED <<traceEnabled, err, ioe, src, orig, clones>>

IntoIoError ==
    /\ err # None
    /\ prev' = err
    /\ ioe' = Some(io_Error_from_Error(err[1]))
    /\ err' = None
    /\ last' = "into"
    /\ UNCHANGED <<traceEnabled, src, orig, shown, clones>>

Drop ==
    /\ ~Idle
    /\ err' = None
    /\ ioe' = None
    /\ prev' = None
    /\ shown' = None
    /\ last' = "drop"
    /\ UNCHANGED <<traceEnabled, src, orig, clones>>

Next ==
    \/ FromStr
    \/ FromString
    \/ FromSendError
    \/ FromDnsSecError
    \/ FromIoError
    \/ FromProtoError
    \/ FromErrorKind
    \/ FromIoErrorBack
    \/ Clone
    \/ Display
    \/ IntoIoError
    \/ Drop

Spec == Init /\ [][Next]_vars

TypeOK ==
    /\ traceEnabled \in BOOLEAN
    /\ Len(err) <= 1 /\ Len(ioe) <= 1 /\ Len(orig) <= 1 /\ Len(prev) <= 1
    /\ clones \in 0..MaxClones
    /\ ~(err # None /\ ioe # None)

-----------------------------------------------------------------------------
(* Properties                                                               *)

\* The typed inbound conversions that normalise timeouts.
ForeignEntries == {"DnsSecError", "io::Error", "io::Error back", "ProtoError"}

\* The foreign error wrapped by k classifies itself as a timeout.
NativeTimeout(k) ==
    \/ k.tag = "DnsSec" /\ k.dnssec[1].kind = "Timeout"
    \/ k.tag = "Io" /\ k.io[1].kind = "TimedOut"
    \/ k.tag = "Proto" /\ k.proto[1].kind = "Timeout"

\* The foreign error wrapped by k is not itself a timeout but wraps one.
DeepTimeout(k) ==
    \/ /\ k.tag = "Proto"
       /\ k.proto[1].kind = "Io"
       /\ k.proto[1].io[1].kind = "TimedOut"
    \/ /\ k.tag = "DnsSec"
       /\ k.dnssec[1].kind = "Proto"
       /\ \/ k.dnssec[1].proto[1].kind = "Timeout"
          \/ /\ k.dnssec[1].proto[1].kind = "Io"
             /\ k.dnssec[1].proto[1].io[1].kind = "TimedOut"

\* C1: an Error just converted from a DnsSecError, io::Error or ProtoError
\* whose own classification is timeout has kind Timeout, whatever payload
\* the incoming error carries.
C1_TimeoutNormalized ==
    (last = "from" /\ src.entry \in ForeignEntries /\ NativeTimeout(src.kind[1]))
        => err[1].kind.tag = "Timeout"

C1_Witness ==
    /\ last = "from"
    /\ src = Source("io::Error", Io(io_Error_new("TimedOut", "mock timeout")))
    /\ err[1].kind = Timeout

\* C2: an Error just converted from a DnsSecError, io::Error or ProtoError
\* whose own classification is not timeout has the wrapped variant DnsSec,
\* Io or Proto holding that very error, and is not Timeout.
C2_NonTimeoutWrapped ==
    (last = "from" /\ src.entry \in ForeignEntries /\ ~NativeTimeout(src.kind[1]))
        => /\ err[1].kind = src.kind[1]
           /\ err[1].kind.tag \in {"DnsSec", "Io", "Proto"}
           /\ err[1].kind.tag # "Timeout"

C2_Witness ==
    /\ last = "from"
    /\ src = Source("io::Error", Io(io_Error_new("NotFound", "mock timeout")))
    /\ err[1].kind.tag = "Io"

\* C3: the io::Error produced from an Error is classified TimedOut exactly
\* when the Error's kind is Timeout, and Other for every other kind, whatever
\* the classification of a wrapped foreign error.
C3_OutboundBinary ==
    last = "into"
        => /\ ioe[1].kind = "TimedOut" <=> prev[1].kind.tag = "Timeout"
           /\ prev[1].kind.tag # "Timeout" => ioe[1].kind = "Other"

C3_Witness ==
    /\ last = "into"
    /\ prev[1].kind.tag = "Io"
    /\ prev[1].kind.io[1].kind = "TimedOut"
    /\ ioe[1].kind = "Other"

\* C4: no Error reachable through any inbound entry point has kind DnsSec,
\* Io or Proto wrapping a foreign error whose own classification is timeout.
C4_TimeoutCanonical ==
    err # None => ~NativeTimeout(err[1].kind)

\* C5: a clone of an ErrorKind has the same variant tag; an Io clone wraps an
\* io::Error of the same classification code and no payload, and for every
\* other variant the clone's payload equals the original's.
C5_CloneKind ==
    last = "clone"
        => LET o == prev[1].kind
               c == err[1].kind
           IN /\ c.tag = o.tag
              /\ IF o.tag = "Io"
                 THEN /\ c.io[1].kind = o.io[1].kind
                      /\ c.io[1].payload = None
                 ELSE c = o

C5_Witness ==
    /\ last = "clone"
    /\ prev[1].kind = Io(io_Error_new("NotFound", "mock timeout"))
    /\ err[1].kind = Io(io_Error_from("NotFound"))

\* C6: the Display output of an Error cloned once or twice equals the
\* Display output of the Error as constructed, for every kind.
C6_CloneDisplay ==
    (err # None /\ clones > 0) => Error_fmt(err[1]) = Error_fmt(orig[1])

C6_Witness ==
    /\ err # None
    /\ clones = 2
    /\ orig[1].kind = Io(io_Error_new("Other", "mock timeout"))
    /\ err[1] # orig[1]
    /\ err[1].backtrack # None

\* C7 (as stated): Display of an Error never fails and its output is never
\* empty, for every variant and with or without a backtrace.
C7_DisplayNeverEmpty ==
    last = "fmt" => (shown # None /\ shown[1] # "")

\* C7 (amended): Display of an Error never fails, and its output is empty
\* exactly when the kind is Message or Msg with an empty string and no
\* backtrace was captured.
C7_DisplayEmptyOnlyForEmptyMessage ==
    last = "fmt"
        => /\ shown # None
           /\ shown[1] = ""
                <=> /\ prev[1].kind.tag \in {"Message", "Msg"}
                    /\ prev[1].kind.msg[1] = ""
                    /\ prev[1].backtrack = None

C7_Witness ==
    /\ last = "fmt"
    /\ prev[1].kind = Message("")
    /\ prev[1].backtrack = None
    /\ shown = Some("")

\* The value in hand, Error or io::Error, is a timeout.
TimeoutHeld ==
    /\ ~Idle
    /\ err # None => err[1].kind.tag = "Timeout"
    /\ ioe # None => ioe[1].kind = "TimedOut"

\* C8: once the held Error is Timeout, every clone, outbound conversion to
\* io::Error and conversion of that io::Error back keeps it a timeout: the
\* Error's kind stays Timeout and the io::Error is classified TimedOut.
C8_TimeoutTerminal ==
    [][(TimeoutHeld /\ ~Idle') => TimeoutHeld']_vars

C8_Witness ==
    /\ src.entry = "io::Error back"
    /\ err # None
    /\ err[1].kind = Timeout
    /\ clones > 0

\* C9: an Error just converted from a &'static str has kind Message with
\* that string, and one converted from a String has kind Msg with that
\* string; neither is Timeout, whatever the string says.
C9_StringsNotNormalized ==
    /\ (last = "from" /\ src.entry = "str")
          => /\ err[1].kind.tag = "Message"
             /\ err[1].kind.msg = src.kind[1].msg
    /\ (last = "from" /\ src.entry = "String")
          => /\ err[1].kind.tag = "Msg"
             /\ err[1].kind.msg = src.kind[1].msg

C9_Witness ==
    /\ last = "from"
    /\ src.entry = "String"
    /\ src.kind[1].msg = Some("timeout")
    /\ err[1].kind = Msg("timeout")

\* C10: a ProtoError or DnsSecError that is not itself a timeout but wraps
\* one converts to the wrapped variant Proto or DnsSec holding it, not to
\* Timeout, and the io::Error made from that Error is classified Other.
C10_ShallowDetection ==
    (src.entry \in {"DnsSecError", "ProtoError"} /\ DeepTimeout(src.kind[1]))
        => /\ err # None => /\ err[1].kind.tag = src.kind[1].tag
                            /\ err[1].kind.tag # "Timeout"
           /\ ioe # None => ioe[1].kind = "Other"

C10_Witness ==
    /\ last = "into"
    /\ src = Source("ProtoError", Proto([kind |-> "Io", io |-> Some(io_Error_from("TimedOut"))]))
    /\ prev[1].kind.tag = "Proto"
    /\ ioe[1].kind = "Other"
====
